---- MODULE Spec2Model ----
(***************************************************************************)
(* img-to-ascii: the ASCII-animation codec (converter.py) and the decoder  *)
(* and player (viewer.py).                                                 *)
(*                                                                         *)
(* Text is modelled as a sequence of one-character strings; the escape     *)
(* character \x1b is the one-character token ESC and the line feed is NL.  *)
(***************************************************************************)
EXTENDS Integers, Sequences, FiniteSets, TLC

VARIABLES
    \* Line codec: compress_line / unpack_line
    line, threshold, packed, unpacked, lpc,
    \* Diff codec: diff_frames / apply_diff
    dframes, diffs, restored, dpc,
    \* Container codec: save_ascii_file / decompress_ascii
    meta, payload, file, loaded, cpc,
    \* Animation path: process_gif_image / load_ascii_frames
    anim, efile, decoded, epc,
    \* Playback: display_ascii_loop / get_keypress and the terminal
    total_frames, pdelays, frame_index, mode, draw, timeout, key,
    old_settings, termAttr, entryAttr, printed, shown, action, ppc,
    \* Frame compositor: extract_composited_frames
    gif, canvas, prev_canvas, pre_canvas, out_frames, out_delays, frame_num, gpc,
    \* Batch conversion: converter.py process_images
    images, options, ipos, disk, clog, bpc,
    \* Playlist: viewer.py main
    ascii_files, index, mframes, main_action, mlog, mpc

lineVars == <<line, threshold, packed, unpacked, lpc>>
diffVars == <<dframes, diffs, restored, dpc>>
contVars == <<meta, payload, file, loaded, cpc>>
animVars == <<anim, efile, decoded, epc>>
playVars == <<total_frames, pdelays, frame_index, mode, draw, timeout, key,
              old_settings, termAttr, entryAttr, printed, shown, action, ppc>>
compVars == <<gif, canvas, prev_canvas, pre_canvas, out_frames, out_delays,
              frame_num, gpc>>
convVars == <<images, options, ipos, disk, clog, bpc>>
mainVars == <<ascii_files, index, mframes, main_action, mlog, mpc>>
batchVars == <<convVars, mainVars>>
vars == <<lineVars, diffVars, contVars, animVars, playVars, compVars, batchVars>>

----------------------------------------------------------------------------
(* Bounds of the model *)

MaxWidth == 3
MaxThreshold == 4
MaxFrames == 3
MaxHeight == 2
MaxDelays == 2
MaxPayload == 2
MaxFileLen == 3
CanvasSize == 2
\* The most pixels of an animation (frames x rows x columns)
MaxCells == 8
\* The most entries of a directory listing, rows and frames of a listed image,
\* and error messages kept of the playlist loop
MaxItems == 3
MaxRows == 1
MaxGifFrames == 2
MaxLog == 2

----------------------------------------------------------------------------
(* Characters and text helpers *)

ESC == "ESC"
NL == "NL"

DigitChars == {"0", "1", "2", "3", "4", "5", "6", "7", "8", "9"}

DigitOf == <<"1", "2", "3", "4", "5", "6", "7", "8", "9">>

DigitChar(d) == IF d = 0 THEN "0" ELSE DigitOf[d]

DigitVal(c) == CHOOSE d \in 0..9 : DigitChar(d) = c

\* str(n) / f"{n}" for a non-negative integer
RECURSIVE DecimalStr(_)
DecimalStr(n) ==
    IF n < 10 THEN <<DigitChar(n)>>
    ELSE DecimalStr(n \div 10) \o <<DigitChar(n % 10)>>

\* int(s) for a non-empty string of decimal digits
RECURSIVE ParseInt(_)
ParseInt(s) ==
    IF Len(s) = 1 THEN DigitVal(s[1])
    ELSE 10 * ParseInt(SubSeq(s, 1, Len(s) - 1)) + DigitVal(s[Len(s)])

\* [c] * n, and c * n for a one-character string
Repeat(c, n) == [k \in 1..n |-> c]

Min(a, b) == IF a < b THEN a ELSE b
Max(a, b) == IF a > b THEN a ELSE b

\* The least and the greatest element of a non-empty set of integers
Least(S) == CHOOSE x \in S : \A y \in S : x <= y
Greatest(S) == CHOOSE x \in S : \A y \in S : x >= y

\* ''.join(parts): the texts parts[lo..hi] one after the other
RECURSIVE FlatRange(_, _, _)
FlatRange(parts, lo, hi) ==
    IF lo > hi THEN <<>>
    ELSE IF lo = hi THEN parts[lo]
    ELSE LET mid == (lo + hi) \div 2 IN
         FlatRange(parts, lo, mid) \o FlatRange(parts, mid + 1, hi)

Flatten(parts) == FlatRange(parts, 1, Len(parts))

\* sep.join(parts) for a sequence of texts
Join(parts, sep) ==
    IF Len(parts) = 0 THEN <<>>
    ELSE Flatten([k \in 1..(2 * Len(parts) - 1) |->
                     IF k % 2 = 1 THEN parts[(k + 1) \div 2] ELSE sep])

----------------------------------------------------------------------------
(* Glyph mapper: converter.py pixel_to_ascii *)

ASCII_CHARS == <<"@", "%", "#", "*", "+", "=", "-", ":", ".", " ">>

\* colorama Style.RESET_ALL
RESET_ALL == <<ESC, "[", "0", "m">>

\* int(brightness / 255 * (len(ASCII_CHARS) - 1)) with brightness = (r+g+b)/3.
\* The float expression equals this quotient for every channel sum except 425;
\* Pixels holds no pixel of sum 425.
CharIndex(pixel) ==
    ((pixel[1] + pixel[2] + pixel[3]) * (Len(ASCII_CHARS) - 1)) \div 765

pixel_to_ascii(pixel, color_mode) ==
    LET char_index == CharIndex(pixel) IN
    IF color_mode = 0 THEN <<ASCII_CHARS[char_index + 1]>>
    ELSE IF color_mode = 1 THEN <<ASCII_CHARS[Len(ASCII_CHARS) - char_index]>>
    ELSE <<ESC, "[", "3", "8", ";", "2", ";">>
           \o DecimalStr(pixel[1]) \o <<";">>
           \o DecimalStr(pixel[2]) \o <<";">>
           \o DecimalStr(pixel[3]) \o <<"m">>
           \o <<ASCII_CHARS[char_index + 1]>> \o RESET_ALL

\* The colour samples the inputs are drawn from
Pixels == { <<0, 0, 0>>, <<255, 255, 255>>, <<128, 128, 128>>,
            <<255, 0, 0>>, <<222, 222, 222>> }

ColorModes == {0, 1, 2}

\* One scanline of image_to_ascii before compression: the glyphs joined
RECURSIVE RowText(_, _)
RowText(pixels, color_mode) ==
    IF Len(pixels) = 0 THEN <<>>
    ELSE pixel_to_ascii(pixels[1], color_mode) \o RowText(Tail(pixels), color_mode)

PixelRows(w) == UNION { [1..n -> Pixels] : n \in 1..w }

----------------------------------------------------------------------------
(* Line codec: converter.py compress_line, viewer.py unpack_line *)

\* The two branches on a finished run: f"{prev}{count}" or [prev] * count
EmitRun(prev, count, thr) ==
    IF count >= thr THEN <<prev>> \o DecimalStr(count) ELSE Repeat(prev, count)

\* The loop leaves a run at position k: the next character differs from
\* prev, or the line ends (the flush after the loop)
RunEnds(ln, k) == k = Len(ln) \/ ln[k + 1] # ln[k]

\* count when the loop leaves the run that ends at k: the characters equal
\* to prev since the last change
RunCount(ln, k) ==
    k - Greatest({0} \cup {j \in 1..(k - 1) : ln[j] # ln[k]})

\* What the loop appends to result at position k
Emitted(ln, k, thr) ==
    IF RunEnds(ln, k) THEN EmitRun(ln[k], RunCount(ln, k), thr) ELSE <<>>

\* ln is non-empty when enabled (line[0] is read)
compress_line(ln, enabled, thr) ==
    IF ~enabled THEN ln
    ELSE Flatten([k \in 1..Len(ln) |-> Emitted(ln, k, thr)])

\* The least position q >= p with ln[q] = "m", or Len(ln) + 1
MPos(ln, p) ==
    LET S == {q \in p..Len(ln) : ln[q] = "m"} IN
    IF S = {} THEN Len(ln) + 1 ELSE Least(S)

\* The last position of the digit run that starts at p (greedy \d+)
DigitsEnd(ln, p) ==
    Least({q \in p..Len(ln) : q = Len(ln) \/ ln[q + 1] \notin DigitChars})

\* re.match(r'([^\d\x1b])(\d+)', line[i:]) succeeds
CountMatch(ln, i) ==
    /\ ln[i] \notin DigitChars
    /\ ln[i] # ESC
    /\ i + 1 <= Len(ln)
    /\ ln[i + 1] \in DigitChars

RECURSIVE UnpackScan(_, _, _)
UnpackScan(ln, i, result) ==
    IF i > Len(ln) THEN result
    ELSE IF ln[i] = ESC
         THEN LET end == Min(MPos(ln, i + 1), Len(ln)) IN
              UnpackScan(ln, end + 1, result \o SubSeq(ln, i, end))
         ELSE IF CountMatch(ln, i)
              THEN LET e == DigitsEnd(ln, i + 1)
                       count == ParseInt(SubSeq(ln, i + 1, e)) IN
                   UnpackScan(ln, e + 1, result \o Repeat(ln[i], count))
              ELSE UnpackScan(ln, i + 1, result \o <<ln[i]>>)

unpack_line(ln) == UnpackScan(ln, 1, <<>>)

----------------------------------------------------------------------------
(* Encoder rows: converter.py image_to_ascii.  An image is the resized RGB   *)
(* raster, a sequence of scanlines of pixels.                                *)

image_to_ascii(image, color_mode, no_compress, thr) ==
    [y \in 1..Len(image) |->
        compress_line(RowText(image[y], color_mode), ~no_compress, thr)]

\* The rasters of n frames of height h and width w over the samples px
Rasters(n, h, w, px) == [1..n -> [1..h -> [1..w -> px]]]

----------------------------------------------------------------------------
(* Diff codec: converter.py diff_frames, viewer.py apply_diff *)

\* str.splitlines(): the text cut at every line feed, with no empty last line
\* i is the start of the current line, acc the lines before it
RECURSIVE SplitScan(_, _, _)
SplitScan(t, i, acc) ==
    LET S == {q \in i..Len(t) : t[q] = NL} IN
    IF S = {} THEN (IF i <= Len(t) THEN Append(acc, SubSeq(t, i, Len(t))) ELSE acc)
    ELSE SplitScan(t, Least(S) + 1, Append(acc, SubSeq(t, i, Least(S) - 1)))

splitlines(t) == SplitScan(t, 1, <<>>)

\* prev[j] if j < len(prev) else ''
RowAt(rows, j) == IF j <= Len(rows) THEN rows[j] ELSE <<>>

\* The stored value of one row of a diff
DiffRow(pl, cl) == IF pl = cl THEN <<"=">> ELSE cl

\* The body of the loop over i in diff_frames
DiffOf(prev, curr) ==
    LET max_len == Max(Len(prev), Len(curr)) IN
    Join([j \in 1..max_len |-> DiffRow(RowAt(prev, j), RowAt(curr, j))], <<NL>>)

diff_frames(frames) ==
    [i \in 1..Len(frames) |->
        IF i = 1 THEN Join(frames[1], <<NL>>)
        ELSE DiffOf(frames[i - 1], frames[i])]

\* The reconstructed value of one row
ApplyRow(pl, dl) == IF dl = <<"=">> THEN pl ELSE dl

\* The body of the loop over diff_frame in apply_diff
ApplyOne(prev_lines, diff_lines) ==
    LET max_len == Max(Len(prev_lines), Len(diff_lines)) IN
    [j \in 1..max_len |-> ApplyRow(RowAt(prev_lines, j), RowAt(diff_lines, j))]

RECURSIVE ApplyScan(_, _, _)
ApplyScan(frames, i, full_frames) ==
    IF i > Len(frames) THEN full_frames
    ELSE ApplyScan(frames, i + 1,
                   Append(full_frames,
                          ApplyOne(full_frames[Len(full_frames)],
                                   splitlines(frames[i]))))

\* max(len(frame) for frame in frames)
RECURSIVE MaxLen(_)
MaxLen(frames) ==
    IF Len(frames) = 1 THEN Len(frames[1])
    ELSE Max(Len(frames[1]), MaxLen(Tail(frames)))

\* while len(frame) < max_height: frame.insert(0, '')
PadFront(frame, max_height) ==
    [k \in 1..(max_height - Len(frame)) |-> <<>>] \o frame

PadAll(frames) ==
    LET max_height == MaxLen(frames) IN
    [i \in 1..Len(frames) |-> PadFront(frames[i], max_height)]

apply_diff(frames) ==
    LET full_frames == ApplyScan(frames, 2, <<splitlines(frames[1])>>)
        padded == PadAll(full_frames) IN
    [i \in 1..Len(padded) |-> Join(padded[i], <<NL>>)]

----------------------------------------------------------------------------
(* JSON text of the metadata: json.dumps and json.loads.  A JSON value is a  *)
(* tagged record: bool, int, str (its characters), list (its items), obj     *)
(* (its key/value pairs in insertion order) or null.                         *)

JNull == [t |-> "null", v |-> 0]
JBool(b) == [t |-> "bool", v |-> b]
JInt(n) == [t |-> "int", v |-> n]
JStr(cs) == [t |-> "str", v |-> cs]
JList(items) == [t |-> "list", v |-> items]
JObj(pairs) == [t |-> "obj", v |-> pairs]

KwNull == <<"n", "u", "l", "l">>
KwTrue == <<"t", "r", "u", "e">>
KwFalse == <<"f", "a", "l", "s", "e">>

RECURSIVE json_dumps(_)
json_dumps(x) ==
    CASE x.t = "null" -> KwNull
      [] x.t = "bool" -> (IF x.v THEN KwTrue ELSE KwFalse)
      [] x.t = "int" -> (IF x.v < 0 THEN <<"-">> \o DecimalStr(-x.v)
                         ELSE DecimalStr(x.v))
      [] x.t = "str" -> <<"\"">> \o x.v \o <<"\"">>
      [] x.t = "list" ->
            <<"[">> \o Join([k \in 1..Len(x.v) |-> json_dumps(x.v[k])],
                            <<",", " ">>) \o <<"]">>
      [] x.t = "obj" ->
            <<"{">> \o Join([k \in 1..Len(x.v) |->
                                <<"\"">> \o x.v[k][1] \o <<"\"", ":", " ">>
                                \o json_dumps(x.v[k][2])],
                            <<",", " ">>) \o <<"}">>

\* The result of a parsing step: whether it succeeded, the value, and the
\* position after it
POk(val, pos) == [ok |-> TRUE, val |-> val, pos |-> pos]
PFail == [ok |-> FALSE, val |-> JNull, pos |-> 0]

JsonWhitespace == {" ", "TAB", NL, "CR"}

RECURSIVE SkipWs(_, _)
SkipWs(s, i) ==
    IF i <= Len(s) /\ s[i] \in JsonWhitespace THEN SkipWs(s, i + 1) ELSE i

\* s[i..] starts with the text w
StartsWith(s, i, w) ==
    /\ i + Len(w) - 1 <= Len(s)
    /\ SubSeq(s, i, i + Len(w) - 1) = w

\* The position of the quote that closes a string opened before i, or 0: the
\* string holds no escape and no control character
RECURSIVE StrEnd(_, _)
StrEnd(s, i) ==
    IF i > Len(s) THEN 0
    ELSE IF s[i] = "\"" THEN i
    ELSE IF s[i] \in {"\\", NL, "CR", "TAB"} THEN 0
    ELSE StrEnd(s, i + 1)

\* An integer: -?(0|[1-9][0-9]*).  i is at its first digit; neg is its sign.
ParseNumber(s, i, neg) ==
    IF i > Len(s) \/ s[i] \notin DigitChars THEN PFail
    ELSE LET e == IF s[i] = "0" THEN i ELSE DigitsEnd(s, i)
             n == ParseInt(SubSeq(s, i, e)) IN
         POk(JInt(IF neg THEN -n ELSE n), e + 1)

\* dict[key] = val
DictSet(pairs, name, val) ==
    IF \E k \in 1..Len(pairs) : pairs[k][1] = name
    THEN [k \in 1..Len(pairs) |->
             IF pairs[k][1] = name THEN <<name, val>> ELSE pairs[k]]
    ELSE Append(pairs, <<name, val>>)

RECURSIVE ParseValue(_, _)
RECURSIVE ParseItems(_, _, _)
RECURSIVE ParsePairs(_, _, _)

\* scan_once: the value that starts at i
ParseValue(s, i) ==
    IF i > Len(s) THEN PFail
    ELSE CASE s[i] = "\"" ->
                 (LET e == StrEnd(s, i + 1) IN
                  IF e = 0 THEN PFail ELSE POk(JStr(SubSeq(s, i + 1, e - 1)), e + 1))
           [] s[i] = "{" ->
                 (LET j == SkipWs(s, i + 1) IN
                  IF j <= Len(s) /\ s[j] = "}" THEN POk(JObj(<<>>), j + 1)
                  ELSE ParsePairs(s, j, <<>>))
           [] s[i] = "[" ->
                 (LET j == SkipWs(s, i + 1) IN
                  IF j <= Len(s) /\ s[j] = "]" THEN POk(JList(<<>>), j + 1)
                  ELSE ParseItems(s, j, <<>>))
           [] s[i] = "n" ->
                 (IF StartsWith(s, i, KwNull) THEN POk(JNull, i + 4) ELSE PFail)
           [] s[i] = "t" ->
                 (IF StartsWith(s, i, KwTrue) THEN POk(JBool(TRUE), i + 4) ELSE PFail)
           [] s[i] = "f" ->
                 (IF StartsWith(s, i, KwFalse) THEN POk(JBool(FALSE), i + 5) ELSE PFail)
           [] s[i] = "-" -> ParseNumber(s, i + 1, TRUE)
           [] s[i] \in DigitChars -> ParseNumber(s, i, FALSE)
           [] OTHER -> PFail

\* JSONArray: the items from i on, up to the closing bracket
ParseItems(s, i, items) ==
    LET r == ParseValue(s, i) IN
    IF ~r.ok THEN PFail
    ELSE LET j == SkipWs(s, r.pos)
             got == Append(items, r.val) IN
         IF j > Len(s) THEN PFail
         ELSE IF s[j] = "]" THEN POk(JList(got), j + 1)
         ELSE IF s[j] = "," THEN ParseItems(s, SkipWs(s, j + 1), got)
         ELSE PFail

\* JSONObject: the "key": value pairs from i on, up to the closing brace
ParsePairs(s, i, pairs) ==
    IF i > Len(s) \/ s[i] # "\"" THEN PFail
    ELSE LET e == StrEnd(s, i + 1) IN
         IF e = 0 THEN PFail
         ELSE LET name == SubSeq(s, i + 1, e - 1)
                  c == SkipWs(s, e + 1) IN
              IF c > Len(s) \/ s[c] # ":" THEN PFail
              ELSE LET r == ParseValue(s, SkipWs(s, c + 1)) IN
                   IF ~r.ok THEN PFail
                   ELSE LET j == SkipWs(s, r.pos)
                            got == DictSet(pairs, name, r.val) IN
                        IF j > Len(s) THEN PFail
                        ELSE IF s[j] = "}" THEN POk(JObj(got), j + 1)
                        ELSE IF s[j] = "," THEN ParsePairs(s, SkipWs(s, j + 1), got)
                        ELSE PFail

\* json.loads: one value between optional whitespace, and nothing after it
json_loads(s) ==
    LET r == ParseValue(s, SkipWs(s, 1)) IN
    IF r.ok /\ SkipWs(s, r.pos) = Len(s) + 1 THEN r ELSE PFail

----------------------------------------------------------------------------
(* Container codec: converter.py save_ascii_file, viewer.py decompress_ascii. *)
(* The text is ASCII, so its UTF-8 bytes are its characters.  A zlib stream  *)
(* is its header, the data it carries and the checksum of the data.          *)

Checksum(data) == Len(data)

zlib_compress(data) == [hdr |-> "zlib", body |-> data, adler |-> Checksum(data)]

\* zlib.decompress raises zlib.error unless this holds
ZlibValid(f) == f.hdr = "zlib" /\ f.adler = Checksum(f.body)

\* What save_ascii_file writes to the file
save_ascii_file(content, metadata) ==
    LET meta_json == json_dumps(metadata)
        combined == meta_json \o <<NL>> \o content IN
    zlib_compress(combined)

\* bytes.find(b'\n') as a 0-based index, -1 when there is none
FindFrom(data, i) ==
    LET S == {q \in i..Len(data) : data[q] = NL} IN
    IF S = {} THEN -1 ELSE Least(S) - 1

\* Faulty variant of FindNewline: bytes.rfind(b'\n'), the last newline
FindLastNewline(data) ==
    IF \E k \in 1..Len(data) : data[k] = NL
    THEN (CHOOSE k \in 1..Len(data) :
             data[k] = NL /\ \A j \in (k + 1)..Len(data) : data[j] # NL) - 1
    ELSE -1

FindNewline(data) == FindFrom(data, 1)

\* data[:end] and data[start:] for 0-based bounds that may be negative
SliceTo(data, end) ==
    LET e == IF end < 0 THEN Max(Len(data) + end, 0) ELSE Min(end, Len(data)) IN
    SubSeq(data, 1, e)

SliceFrom(data, start) ==
    LET b == IF start < 0 THEN Max(Len(data) + start, 0) ELSE Min(start, Len(data)) IN
    SubSeq(data, b + 1, Len(data))

Loaded(metadata, content) ==
    [ok |-> TRUE, err |-> "", metadata |-> metadata, content |-> content]
Raised(err) ==
    [ok |-> FALSE, err |-> err, metadata |-> JNull, content |-> <<>>]

decompress_ascii(f) ==
    IF ~ZlibValid(f) THEN Raised("zlib.error")
    ELSE LET decompressed == f.body
             meta_end == FindNewline(decompressed)
             meta_json == SliceTo(decompressed, meta_end)
             content_bytes == SliceFrom(decompressed, meta_end + 1)
             parsed == json_loads(meta_json) IN
         IF ~parsed.ok THEN Raised("JSONDecodeError")
         ELSE Loaded(parsed.val, content_bytes)

----------------------------------------------------------------------------
(* Animation path: converter.py process_gif_image (from the composited      *)
(* frames on), viewer.py unpack_content and load_ascii_frames               *)

\* settings.FRAME_SEPARATOR: a token that no glyph output contains
FRAME_SEPARATOR == <<"<", "F", ">">>

\* while len(frame) < max_height: frame.append(empty_line)
PadBack(frame, max_height, empty_line) ==
    frame \o [k \in 1..(max_height - Len(frame)) |-> empty_line]

KeyCompressed == <<"c", "o", "m", "p", "r", "e", "s", "s", "e", "d">>
KeyDiff == <<"d", "i", "f", "f">>
KeyColor == <<"c", "o", "l", "o", "r">>
KeyDelays == <<"d", "e", "l", "a", "y", "s">>

\* The meta dict of process_static_image
StaticMeta(c, d, col) ==
    JObj(<< <<KeyCompressed, JBool(c)>>, <<KeyDiff, JBool(d)>>,
            <<KeyColor, JBool(col)>> >>)

\* The meta dict of process_gif_image
GifMeta(c, d, col, delays) ==
    JObj(<< <<KeyCompressed, JBool(c)>>, <<KeyDiff, JBool(d)>>,
            <<KeyColor, JBool(col)>>,
            <<KeyDelays, JList([k \in 1..Len(delays) |-> JInt(delays[k])])>> >>)

\* The content and the metadata process_gif_image hands to save_ascii_file.
\* a.frames are the composited frames as resized RGB rasters.
GifContent(a) ==
    LET frames_ascii == [f \in 1..Len(a.frames) |->
                            image_to_ascii(a.frames[f], a.color_mode,
                                           a.no_compress, a.compress_threshold)]
        max_height == MaxLen(frames_ascii)
        compress_enabled == ~a.no_compress
        empty_line == compress_line(Repeat(" ", a.width), compress_enabled,
                                    a.compress_threshold)
        padded == [f \in 1..Len(frames_ascii) |->
                      PadBack(frames_ascii[f], max_height, empty_line)]
        texts == IF ~a.no_diff THEN diff_frames(padded)
                 ELSE [f \in 1..Len(padded) |-> Join(padded[f], <<NL>>)] IN
    Join(texts, <<NL>> \o FRAME_SEPARATOR \o <<NL>>)

process_gif_image(a) ==
    save_ascii_file(GifContent(a),
                    GifMeta(~a.no_compress, ~a.no_diff, a.color_mode = 2, a.delays))

\* str.split(sep): i is the start of the current piece, acc the pieces
\* before it
RECURSIVE SplitSep(_, _, _, _)
SplitSep(t, sep, i, acc) ==
    LET S == {q \in i..Len(t) : StartsWith(t, q, sep)} IN
    IF S = {} THEN Append(acc, SubSeq(t, i, Len(t)))
    ELSE SplitSep(t, sep, Least(S) + Len(sep), Append(acc, SubSeq(t, i, Least(S) - 1)))

unpack_content(content, compressed) ==
    LET frames_raw == SplitSep(content, FRAME_SEPARATOR, 1, <<>>)
        frames == [f \in 1..Len(frames_raw) |->
                      LET lines == splitlines(frames_raw[f]) IN
                      IF compressed
                      THEN [k \in 1..Len(lines) |-> unpack_line(lines[k])]
                      ELSE lines]
        padded == PadAll(frames) IN
    [f \in 1..Len(padded) |-> Join(padded[f], <<NL>>)]

\* The end of the match of \x1b\[[0-9;]*m that starts at i, or 0 when
\* there is none
AnsiEnd(t, i) ==
    IF t[i] = ESC /\ i + 1 <= Len(t) /\ t[i + 1] = "["
    THEN LET S == {q \in (i + 2)..Len(t) : t[q] \notin DigitChars \cup {";"}} IN
         IF S # {} /\ t[Least(S)] = "m" THEN Least(S) ELSE 0
    ELSE 0

\* re.sub: i is the position after the last match, acc the text kept so far
RECURSIVE StripScan(_, _, _)
StripScan(t, i, acc) ==
    LET S == {q \in i..Len(t) : AnsiEnd(t, q) > 0} IN
    IF S = {} THEN acc \o SubSeq(t, i, Len(t))
    ELSE StripScan(t, AnsiEnd(t, Least(S)) + 1, acc \o SubSeq(t, i, Least(S) - 1))

strip_ansi_codes(text) == StripScan(text, 1, <<>>)

\* metadata.get(key, default) as a boolean
MetaGet(metadata, name, default) ==
    IF \E k \in 1..Len(metadata.v) : metadata.v[k][1] = name
    THEN (CHOOSE pr \in {metadata.v[k] : k \in 1..Len(metadata.v)} : pr[1] = name)[2].v
    ELSE default

Decoded(frames, metadata) == [ok |-> TRUE, frames |-> frames, metadata |-> metadata]
DecodeRaised == [ok |-> FALSE, frames |-> <<>>, metadata |-> JNull]

\* The file holds a metadata object, as every file save_ascii_file writes
load_ascii_frames(f) ==
    LET r == decompress_ascii(f) IN
    IF ~r.ok \/ r.metadata.t # "obj" THEN DecodeRaised
    ELSE LET unpacked_frames ==
                 unpack_content(r.content, MetaGet(r.metadata, KeyCompressed, TRUE))
             frames == IF MetaGet(r.metadata, KeyDiff, FALSE)
                       THEN apply_diff(unpacked_frames) ELSE unpacked_frames
             color_enabled == MetaGet(r.metadata, KeyColor, TRUE) IN
         Decoded(IF ~color_enabled
                 THEN [k \in 1..Len(frames) |-> strip_ansi_codes(frames[k])]
                 ELSE frames,
                 r.metadata)

----------------------------------------------------------------------------
(* Playback engine: viewer.py display_ascii_loop and get_keypress *)

\* timeout=None, and what get_keypress returns besides a key
None == -1
NoKey == "None"
Eof == ""

\* The keys typed: the bound keys in both cases, and an unbound key
Keys == {"q", "Q", "d", "a", "A", " ", "x", "X", "c", "C", "z"}

\* key.lower()
Lower(k) ==
    CASE k = "Q" -> "q"
      [] k = "A" -> "a"
      [] k = "X" -> "x"
      [] k = "C" -> "c"
      [] OTHER -> k

\* default_delay * 1000
DefaultDelayMs == 120

\* Faulty variant of TimeoutOf: the timer also runs while paused
TimeoutAnyMode(m, n, delays, i) ==
    IF n > 1
    THEN (IF Len(delays) > 0 THEN delays[i + 1] ELSE DefaultDelayMs)
    ELSE None

\* The timeout handed to get_keypress, in milliseconds
TimeoutOf(m, n, delays, i) ==
    IF m = "AUTO" /\ n > 1
    THEN (IF Len(delays) > 0 THEN delays[i + 1] ELSE DefaultDelayMs)
    ELSE None

\* Faulty variant of PrevIndex: stops at the first frame
PrevIndexClamped(i, n) == IF i = 0 THEN 0 ELSE i - 1

PrevIndex(i, n) == (i - 1) % n

NextIndex(i, n) == (i + 1) % n

\* tty.setcbreak: the attributes with ECHO and ICANON cleared
Cbreak(attr) == "cbreak"

\* Faulty variant of RestoredAttr: the finally clause leaves the terminal as it is
LeftAttr(current, saved) == current

\* termios.tcsetattr(fd, TCSADRAIN, old_settings)
RestoredAttr(current, saved) == saved

----------------------------------------------------------------------------
(* Frame compositor: converter.py extract_composited_frames.  The canvas is  *)
(* a strip of CanvasSize RGBA pixels; a pixel is <<colour, alpha>> with      *)
(* alpha 0 or 255.  An input frame is what img.info and img.tile hold after  *)
(* img.seek: disposal (Absent when img.info has no such key), duration, the  *)
(* offset of its box and the pixels of the cropped frame.                    *)

Absent == -1

Background == "bg"

\* Image.new("RGBA", img.size, background_rgb + (0,))
NewCanvas == [x \in 1..CanvasSize |-> <<Background, 0>>]

\* canvas.paste(background_rgb + (255,), (0, 0) + img.size)
Filled == [x \in 1..CanvasSize |-> <<Background, 255>>]

\* img.info.get('disposal', 2)
InfoDisposal(frame) == IF frame.disposal = Absent THEN 2 ELSE frame.disposal

\* canvas.alpha_composite(frame, offset): source over destination
AlphaComposite(cv, frame) ==
    [x \in 1..CanvasSize |->
        LET k == x - frame.offset IN
        IF k >= 1 /\ k <= Len(frame.pixels) /\ frame.pixels[k][2] = 255
        THEN frame.pixels[k]
        ELSE cv[x]]

\* The canvas reset before the frame is composited; prev is prev_canvas, a
\* canvas or <<>> for None
ResetCanvas(disposal, cv, prev) ==
    IF disposal = 2 THEN Filled
    ELSE IF disposal = 3 /\ prev # <<>> THEN prev
    ELSE cv

----------------------------------------------------------------------------
(* The state of each part when a specification does not exercise it *)

IdleLine ==
    /\ line = <<>>
    /\ threshold = 1
    /\ packed = <<>>
    /\ unpacked = <<>>
    /\ lpc = "idle"

IdleDiff ==
    /\ dframes = <<>>
    /\ diffs = <<>>
    /\ restored = <<>>
    /\ dpc = "idle"

NoFile == [hdr |-> "none", body |-> <<>>, adler |-> 0]
NotLoaded == [ok |-> FALSE, err |-> "pending", metadata |-> JNull, content |-> <<>>]

IdleCont ==
    /\ meta = JNull
    /\ payload = <<>>
    /\ file = NoFile
    /\ loaded = NotLoaded
    /\ cpc = "idle"

NoAnim ==
    [frames |-> <<>>, width |-> 0, color_mode |-> 0, no_compress |-> FALSE,
     compress_threshold |-> 1, no_diff |-> FALSE, delays |-> <<>>]

IdleAnim ==
    /\ anim = NoAnim
    /\ efile = NoFile
    /\ decoded = DecodeRaised
    /\ epc = "idle"

IdlePlay ==
    /\ total_frames = 0
    /\ pdelays = <<>>
    /\ frame_index = 0
    /\ mode = "AUTO"
    /\ draw = FALSE
    /\ timeout = None
    /\ key = NoKey
    /\ old_settings = "none"
    /\ termAttr = "none"
    /\ entryAttr = "none"
    /\ printed = FALSE
    /\ shown = -1
    /\ action = "none"
    /\ ppc = "idle"

IdleComp ==
    /\ gif = <<>>
    /\ canvas = <<>>
    /\ prev_canvas = <<>>
    /\ pre_canvas = <<>>
    /\ out_frames = <<>>
    /\ out_delays = <<>>
    /\ frame_num = 0
    /\ gpc = "idle"

\* The stems of the listed images, and ASCII_DIR with no file of any of them
Stems == {"a", "b"}
EmptyDisk == [st \in Stems |-> NoFile]
NoOptions ==
    [width |-> 0, color_mode |-> 0, no_compress |-> FALSE,
     compress_threshold |-> 1, no_diff |-> FALSE]

IdleConv ==
    /\ images = <<>>
    /\ options = NoOptions
    /\ ipos = 0
    /\ disk = EmptyDisk
    /\ clog = <<>>
    /\ bpc = "idle"

IdleMain ==
    /\ ascii_files = <<>>
    /\ index = 0
    /\ mframes = <<>>
    /\ main_action = "none"
    /\ mlog = <<>>
    /\ mpc = "idle"

IdleBatch == IdleConv /\ IdleMain

----------------------------------------------------------------------------
(* Specification SpecLine: a row is compressed, then unpacked *)

InitLine ==
    /\ \E px \in PixelRows(MaxWidth), cm \in ColorModes :
          line = RowText(px, cm)
    /\ threshold \in 1..MaxThreshold
    /\ packed = <<>>
    /\ unpacked = <<>>
    /\ lpc = "row"
    /\ IdleDiff /\ IdleCont /\ IdleAnim /\ IdlePlay /\ IdleComp /\ IdleBatch

CompressLine ==
    /\ lpc = "row"
    /\ packed' = compress_line(line, TRUE, threshold)
    /\ lpc' = "packed"
    /\ UNCHANGED <<line, threshold, unpacked, diffVars, contVars, animVars, playVars, compVars, batchVars>>

UnpackLine ==
    /\ lpc = "packed"
    /\ unpacked' = unpack_line(packed)
    /\ lpc' = "unpacked"
    /\ UNCHANGED <<line, threshold, packed, diffVars, contVars, animVars, playVars, compVars, batchVars>>

NextLine == CompressLine \/ UnpackLine

SpecLine == InitLine /\ [][NextLine]_vars

----------------------------------------------------------------------------
(* Specification SpecDiff: frames of equal height are diff-encoded, then    *)
(* decoded.  The rows are rows of image_to_ascii.                           *)

DiffPixels == { <<0, 0, 0>>, <<128, 128, 128>> }

InitDiff ==
    /\ \E n \in 1..MaxFrames, h \in 1..MaxHeight, w \in 1..2,
          cm \in {0, 1}, nc \in BOOLEAN, thr \in 1..MaxThreshold :
          \E g \in Rasters(n, h, w, DiffPixels) :
             dframes = [f \in 1..n |-> image_to_ascii(g[f], cm, nc, thr)]
    /\ diffs = <<>>
    /\ restored = <<>>
    /\ dpc = "frames"
    /\ IdleLine /\ IdleCont /\ IdleAnim /\ IdlePlay /\ IdleComp /\ IdleBatch

DiffFrames ==
    /\ dpc = "frames"
    /\ diffs' = diff_frames(dframes)
    /\ dpc' = "diffed"
    /\ UNCHANGED <<dframes, restored, lineVars, contVars, animVars, playVars, compVars, batchVars>>

ApplyDiff ==
    /\ dpc = "diffed"
    /\ restored' = apply_diff(diffs)
    /\ dpc' = "applied"
    /\ UNCHANGED <<dframes, diffs, lineVars, contVars, animVars, playVars, compVars, batchVars>>

NextDiff == DiffFrames \/ ApplyDiff

SpecDiff == InitDiff /\ [][NextDiff]_vars

----------------------------------------------------------------------------
(* Specification SpecContainer: a metadata record and a payload are saved,  *)
(* then the file is loaded.                                                 *)

Durations == {0, 100, 120}

DelayLists == UNION { [1..n -> Durations] : n \in 0..MaxDelays }

Metas ==
    { StaticMeta(c, d, col) : c \in BOOLEAN, d \in BOOLEAN, col \in BOOLEAN }
    \cup { GifMeta(x[1], x[2], x[3], dl) :
              x \in BOOLEAN \X BOOLEAN \X BOOLEAN, dl \in DelayLists }

Texts(alphabet, n) == UNION { [1..k -> alphabet] : k \in 0..n }

PayloadChars == {"@", "4", NL}

InitContainer ==
    /\ meta \in Metas
    /\ payload \in Texts(PayloadChars, MaxPayload)
    /\ file = NoFile
    /\ loaded = NotLoaded
    /\ cpc = "args"
    /\ IdleLine /\ IdleDiff /\ IdleAnim /\ IdlePlay /\ IdleComp /\ IdleBatch

SaveAsciiFile ==
    /\ cpc = "args"
    /\ file' = save_ascii_file(payload, meta)
    /\ cpc' = "file"
    /\ UNCHANGED <<meta, payload, loaded, lineVars, diffVars, animVars, playVars, compVars, batchVars>>

DecompressAscii ==
    /\ cpc = "file"
    /\ loaded' = decompress_ascii(file)
    /\ cpc' = "loaded"
    /\ UNCHANGED <<meta, payload, file, lineVars, diffVars, animVars, playVars, compVars, batchVars>>

NextContainer == SaveAsciiFile \/ DecompressAscii

SpecContainer == InitContainer /\ [][NextContainer]_vars

----------------------------------------------------------------------------
(* Specification SpecDecode: decompress_ascii on the bytes of any file      *)

FileChars == {"{", "}", "[", "]", "1", NL, "@"}

FileBodies ==
    Texts(FileChars, MaxFileLen)
    \cup { json_dumps(StaticMeta(TRUE, FALSE, col)) \o t :
              col \in BOOLEAN, t \in Texts(FileChars, 1) }

InitDecode ==
    /\ \E h \in {"zlib", "junk"}, b \in FileBodies :
          \E a \in {Checksum(b), Checksum(b) + 1} :
             file = [hdr |-> h, body |-> b, adler |-> a]
    /\ meta = JNull
    /\ payload = <<>>
    /\ loaded = NotLoaded
    /\ cpc = "file"
    /\ IdleLine /\ IdleDiff /\ IdleAnim /\ IdlePlay /\ IdleComp /\ IdleBatch

NextDecode == DecompressAscii

SpecDecode == InitDecode /\ [][NextDecode]_vars

----------------------------------------------------------------------------
(* Specification SpecAnim: an animation of frames of equal height is        *)
(* encoded by process_gif_image, and the file decoded by load_ascii_frames  *)

InitAnim ==
    /\ \E n \in 2..MaxFrames, h \in 1..MaxHeight, w \in 1..2,
          cm \in ColorModes, nc \in BOOLEAN, thr \in {1, MaxThreshold},
          nd \in BOOLEAN, d \in {100, 120} :
          \E g \in Rasters(n, h, w, DiffPixels) :
             /\ n * h * w <= MaxCells
             /\ anim = [frames |-> g, width |-> w, color_mode |-> cm,
                        no_compress |-> nc, compress_threshold |-> thr,
                        no_diff |-> nd, delays |-> [k \in 1..n |-> d]]
    /\ efile = NoFile
    /\ decoded = DecodeRaised
    /\ epc = "frames"
    /\ IdleLine /\ IdleDiff /\ IdleCont /\ IdlePlay /\ IdleComp /\ IdleBatch

ProcessGifImage ==
    /\ epc = "frames"
    /\ efile' = process_gif_image(anim)
    /\ epc' = "file"
    /\ UNCHANGED <<anim, decoded, lineVars, diffVars, contVars, playVars, compVars, batchVars>>

LoadAsciiFrames ==
    /\ epc = "file"
    /\ decoded' = load_ascii_frames(efile)
    /\ epc' = "decoded"
    /\ UNCHANGED <<anim, efile, lineVars, diffVars, contVars, playVars, compVars, batchVars>>

NextAnim == ProcessGifImage \/ LoadAsciiFrames

SpecAnim == InitAnim /\ [][NextAnim]_vars

----------------------------------------------------------------------------
(* Specification SpecPlay: display_ascii_loop over n >= 1 frames.  One       *)
(* iteration of the loop is LoopTop (print_frame when draw is set, the       *)
(* timeout, the entry of get_keypress), the steps of get_keypress, and       *)
(* HandleKey (the branches on the key).                                      *)

otherThanPlay == <<lineVars, diffVars, contVars, animVars, compVars, batchVars>>

InitPlay ==
    /\ total_frames \in 1..MaxFrames
    /\ pdelays \in {<<>>} \cup { [k \in 1..total_frames |-> d] : d \in {0, 100} }
    /\ frame_index = 0
    /\ mode = "AUTO"
    /\ draw = TRUE
    /\ timeout = None
    /\ key = NoKey
    /\ old_settings = "none"
    /\ entryAttr \in {"cooked", "noecho"}
    /\ termAttr = entryAttr
    /\ printed = FALSE
    /\ shown = -1
    /\ action = "none"
    /\ ppc = "loop"
    /\ IdleLine /\ IdleDiff /\ IdleCont /\ IdleAnim /\ IdleComp /\ IdleBatch

\* The top of the while loop up to tcgetattr in get_keypress
LoopTop ==
    /\ ppc = "loop"
    /\ printed' = draw
    /\ shown' = IF draw THEN frame_index ELSE shown
    /\ timeout' = TimeoutOf(mode, total_frames, pdelays, frame_index)
    /\ old_settings' = termAttr
    /\ ppc' = "kp_try"
    /\ UNCHANGED <<total_frames, pdelays, frame_index, mode, draw, key,
                   termAttr, entryAttr, action, otherThanPlay>>

\* termios.tcgetattr raises (stdin is no terminal): nothing was changed
LoopTopRaises ==
    /\ ppc = "loop"
    /\ printed' = draw
    /\ shown' = IF draw THEN frame_index ELSE shown
    /\ timeout' = TimeoutOf(mode, total_frames, pdelays, frame_index)
    /\ action' = "error"
    /\ ppc' = "raised"
    /\ UNCHANGED <<total_frames, pdelays, frame_index, mode, draw, key,
                   old_settings, termAttr, entryAttr, otherThanPlay>>

\* tty.setcbreak(fd)
KpSetcbreak ==
    /\ ppc = "kp_try"
    /\ termAttr' = Cbreak(termAttr)
    /\ ppc' = "kp_read"
    /\ UNCHANGED <<total_frames, pdelays, frame_index, mode, draw, timeout, key,
                   old_settings, entryAttr, printed, shown, action, otherThanPlay>>

\* tty.setcbreak raises inside the try block
KpSetcbreakRaises ==
    /\ ppc = "kp_try"
    /\ action' = "error"
    /\ ppc' = "kp_finally"
    /\ UNCHANGED <<total_frames, pdelays, frame_index, mode, draw, timeout, key,
                   old_settings, termAttr, entryAttr, printed, shown, otherThanPlay>>

\* sys.stdin.read(1) returns a key
KpReadKey ==
    /\ ppc = "kp_read"
    /\ key' \in Keys
    /\ ppc' = "kp_finally"
    /\ UNCHANGED <<total_frames, pdelays, frame_index, mode, draw, timeout,
                   old_settings, termAttr, entryAttr, printed, shown, action,
                   otherThanPlay>>

\* sys.stdin.read(1) returns '' at the end of the input
KpReadEof ==
    /\ ppc = "kp_read"
    /\ key' = Eof
    /\ ppc' = "kp_finally"
    /\ UNCHANGED <<total_frames, pdelays, frame_index, mode, draw, timeout,
                   old_settings, termAttr, entryAttr, printed, shown, action,
                   otherThanPlay>>

\* No key within the timeout: return None
KpTimeout ==
    /\ ppc = "kp_read"
    /\ timeout # None
    /\ key' = NoKey
    /\ ppc' = "kp_finally"
    /\ UNCHANGED <<total_frames, pdelays, frame_index, mode, draw, timeout,
                   old_settings, termAttr, entryAttr, printed, shown, action,
                   otherThanPlay>>

\* An exception or KeyboardInterrupt during the wait
KpInterrupt ==
    /\ ppc = "kp_read"
    /\ action' = "error"
    /\ ppc' = "kp_finally"
    /\ UNCHANGED <<total_frames, pdelays, frame_index, mode, draw, timeout, key,
                   old_settings, termAttr, entryAttr, printed, shown, otherThanPlay>>

\* The finally clause of get_keypress
KpFinally ==
    /\ ppc = "kp_finally"
    /\ termAttr' = RestoredAttr(termAttr, old_settings)
    /\ ppc' = IF action = "error" THEN "raised" ELSE "handle"
    /\ UNCHANGED <<total_frames, pdelays, frame_index, mode, draw, timeout, key,
                   old_settings, entryAttr, printed, shown, action, otherThanPlay>>

\* if key: ... elif mode == Mode.AUTO: ...
HandleKey ==
    /\ ppc = "handle"
    /\ LET k == Lower(key) IN
       IF key # NoKey /\ key # Eof
       THEN CASE k = "q" ->
                   /\ action' = "quit" /\ ppc' = "returned"
                   /\ UNCHANGED <<mode, draw, frame_index>>
              [] k = "d" ->
                   /\ action' = "next" /\ ppc' = "returned"
                   /\ UNCHANGED <<mode, draw, frame_index>>
              [] k = "a" ->
                   /\ action' = "prev" /\ ppc' = "returned"
                   /\ UNCHANGED <<mode, draw, frame_index>>
              [] k = " " ->
                   /\ mode' = IF mode = "STEP" THEN "AUTO" ELSE "STEP"
                   /\ ppc' = "loop"
                   /\ UNCHANGED <<action, draw, frame_index>>
              [] k = "x" ->
                   /\ draw' = TRUE
                   /\ mode' = "STEP"
                   /\ frame_index' = PrevIndex(frame_index, total_frames)
                   /\ ppc' = "loop"
                   /\ UNCHANGED action
              [] k = "c" ->
                   /\ draw' = TRUE
                   /\ mode' = "STEP"
                   /\ frame_index' = NextIndex(frame_index, total_frames)
                   /\ ppc' = "loop"
                   /\ UNCHANGED action
              [] OTHER ->
                   /\ ppc' = "loop"
                   /\ UNCHANGED <<action, mode, draw, frame_index>>
       ELSE IF mode = "AUTO"
            THEN /\ draw' = (total_frames > 1)
                 /\ frame_index' = NextIndex(frame_index, total_frames)
                 /\ ppc' = "loop"
                 /\ UNCHANGED <<action, mode>>
            ELSE /\ ppc' = "loop"
                 /\ UNCHANGED <<action, mode, draw, frame_index>>
    /\ UNCHANGED <<total_frames, pdelays, timeout, key, old_settings, termAttr,
                   entryAttr, printed, shown, otherThanPlay>>

NextPlay ==
    \/ LoopTop
    \/ LoopTopRaises
    \/ KpSetcbreak
    \/ KpSetcbreakRaises
    \/ KpReadKey
    \/ KpReadEof
    \/ KpTimeout
    \/ KpInterrupt
    \/ KpFinally
    \/ HandleKey

SpecPlay == InitPlay /\ [][NextPlay]_vars

----------------------------------------------------------------------------
(* Specification SpecComp: extract_composited_frames over the frames of one  *)
(* animation.  pre_canvas records the canvas as it was just before the last  *)
(* frame was composited onto it.                                             *)

Disposals == {Absent, 1, 2, 3}

FramePixels == { <<"A", 255>>, <<Background, 0>> }

InputFrames ==
    { [disposal |-> d, duration |-> 100, offset |-> o, pixels |-> px] :
         d \in Disposals, o \in 0..(CanvasSize - 1),
         px \in UNION { [1..k -> FramePixels] : k \in 1..CanvasSize } }

InitComp ==
    /\ \E n \in 1..MaxFrames :
          gif \in [1..n -> { f \in InputFrames : f.offset + Len(f.pixels) <= CanvasSize }]
    /\ canvas = NewCanvas
    /\ prev_canvas = <<>>
    /\ pre_canvas = <<>>
    /\ out_frames = <<>>
    /\ out_delays = <<>>
    /\ frame_num = 0
    /\ gpc = "loop"
    /\ IdleLine /\ IdleDiff /\ IdleCont /\ IdleAnim /\ IdlePlay /\ IdleBatch

\* One iteration of the loop over frame_num
CompositeFrame ==
    /\ gpc = "loop"
    /\ frame_num < Len(gif)
    /\ LET frame == gif[frame_num + 1]
           disposal == InfoDisposal(frame)
           reset == ResetCanvas(disposal, canvas, prev_canvas)
           composited == AlphaComposite(reset, frame) IN
       /\ pre_canvas' = reset
       /\ canvas' = composited
       /\ out_frames' = Append(out_frames, composited)
       /\ out_delays' = Append(out_delays, frame.duration)
       /\ prev_canvas' = composited
    /\ frame_num' = frame_num + 1
    /\ UNCHANGED <<gif, gpc, lineVars, diffVars, contVars, animVars, playVars,
                   batchVars>>

\* return frames, delays
ExtractReturn ==
    /\ gpc = "loop"
    /\ frame_num = Len(gif)
    /\ gpc' = "returned"
    /\ UNCHANGED <<gif, canvas, prev_canvas, pre_canvas, out_frames, out_delays,
                   frame_num, lineVars, diffVars, contVars, animVars, playVars,
                   batchVars>>

NextComp == CompositeFrame \/ ExtractReturn

SpecComp == InitComp /\ [][NextComp]_vars

----------------------------------------------------------------------------
(* Batch conversion: converter.py process_static_image and process_images.  *)
(* A directory entry carries what Image.open and the resize give for it:    *)
(* the resized RGB rasters of its frames (one for a static image).          *)

\* process_static_image from the resized raster on: what it writes
process_static_image(image, opt) ==
    LET ascii_art == Join(image_to_ascii(image, opt.color_mode, opt.no_compress,
                                         opt.compress_threshold), <<NL>>) IN
    save_ascii_file(ascii_art,
                    StaticMeta(~opt.no_compress, FALSE, opt.color_mode = 2))

\* The outcome of the try block of process_images for one entry
Saved(f) == [raised |-> FALSE, file |-> f]
EncodeRaised == [raised |-> TRUE, file |-> NoFile]

\* The try block: Image.open raises on a file that is no image; in
\* process_gif_image max() over no frames raises ValueError
Convert(e, opt) ==
    IF ~e.readable THEN EncodeRaised
    ELSE IF e.gif
         THEN (IF Len(e.frames) = 0 THEN EncodeRaised
               ELSE Saved(process_gif_image(
                        [frames |-> e.frames, width |-> opt.width,
                         color_mode |-> opt.color_mode,
                         no_compress |-> opt.no_compress,
                         compress_threshold |-> opt.compress_threshold,
                         no_diff |-> opt.no_diff, delays |-> e.delays])))
         ELSE Saved(process_static_image(e.frames[1], opt))

\* Faulty variant of AfterError: the exception ends the loop
StopAfterError(i, n) == n + 1

\* The next position of the loop after the except clause
AfterError(i, n) == i + 1

\* The resized raster of h rows of w pixels of one grey
BatchPixel == <<128, 128, 128>>
Raster(h, w) == [y \in 1..h |-> [x \in 1..w |-> BatchPixel]]

Entry(name, stem, is_file, is_gif, readable, frames) ==
    [name |-> name, stem |-> stem, is_file |-> is_file, gif |-> is_gif,
     readable |-> readable, frames |-> frames,
     delays |-> [k \in 1..Len(frames) |-> 100]]

\* A file of a static format: no image at all, or an image of h rows
PngEntries(name, stem) ==
    {Entry(name, stem, TRUE, FALSE, FALSE, <<>>)}
    \cup {Entry(name, stem, TRUE, FALSE, TRUE, <<Raster(h, 1)>>) : h \in 0..MaxRows}

\* A .gif file: no image at all, or n frames of h rows
GifEntries(name, stem) ==
    {Entry(name, stem, TRUE, TRUE, FALSE, <<>>)}
    \cup {Entry(name, stem, TRUE, TRUE, TRUE, [k \in 1..n |-> Raster(h, 1)]) :
             n \in 0..MaxGifFrames, h \in 0..MaxRows}

DirEntry == Entry("sub", "sub", FALSE, FALSE, FALSE, <<>>)

Entries ==
    PngEntries("a.png", "a") \cup GifEntries("a.gif", "a")
    \cup PngEntries("b.png", "b") \cup {DirEntry}

\* IMAGES_DIR.iterdir(): entries of distinct names, in any order
Listings ==
    {l \in UNION {[1..k -> Entries] : k \in 1..MaxItems} :
        \A i, j \in 1..Len(l) : l[i].name = l[j].name => i = j}

OptionSets ==
    {[width |-> 1, color_mode |-> 0, no_compress |-> nc,
      compress_threshold |-> 1, no_diff |-> nc] : nc \in BOOLEAN}

----------------------------------------------------------------------------
(* Specification SpecConvert: process_images over one directory listing.    *)
(* One action is one iteration of the for loop.                             *)

InitConv ==
    /\ images \in Listings
    /\ options \in OptionSets
    /\ ipos = 1
    /\ disk = EmptyDisk
    /\ clog = <<>>
    /\ bpc = "loop"
    /\ IdleLine /\ IdleDiff /\ IdleCont /\ IdleAnim /\ IdlePlay /\ IdleComp
    /\ IdleMain

otherThanConv ==
    <<lineVars, diffVars, contVars, animVars, playVars, compVars, mainVars>>

\* if not image_file.is_file(): continue
SkipEntry ==
    /\ bpc = "loop" /\ ipos <= Len(images)
    /\ ~images[ipos].is_file
    /\ ipos' = ipos + 1
    /\ UNCHANGED <<images, options, disk, clog, bpc, otherThanConv>>

\* if ascii_file.exists(): print, continue
SkipConverted ==
    /\ bpc = "loop" /\ ipos <= Len(images)
    /\ images[ipos].is_file
    /\ disk[images[ipos].stem] # NoFile
    /\ clog' = Append(clog, <<"already converted", images[ipos].name>>)
    /\ ipos' = ipos + 1
    /\ UNCHANGED <<images, options, disk, bpc, otherThanConv>>

\* The try block and its except clause
ConvertEntry ==
    /\ bpc = "loop" /\ ipos <= Len(images)
    /\ images[ipos].is_file
    /\ disk[images[ipos].stem] = NoFile
    /\ LET e == images[ipos]
           r == Convert(e, options) IN
       IF r.raised
       THEN /\ clog' = clog \o << <<"converting", e.name>>, <<"error", e.name>> >>
            /\ disk' = disk
            /\ ipos' = AfterError(ipos, Len(images))
       ELSE /\ clog' = clog \o << <<"converting", e.name>>, <<"converted", e.name>> >>
            /\ disk' = [disk EXCEPT ![e.stem] = r.file]
            /\ ipos' = ipos + 1
    /\ UNCHANGED <<images, options, bpc, otherThanConv>>

\* The listing is exhausted
EndLoop ==
    /\ bpc = "loop" /\ ipos > Len(images)
    /\ bpc' = "done"
    /\ UNCHANGED <<images, options, ipos, disk, clog, otherThanConv>>

NextConv == SkipEntry \/ SkipConverted \/ ConvertEntry \/ EndLoop

SpecConvert == InitConv /\ [][NextConv]_vars

----------------------------------------------------------------------------
(* Playlist: viewer.py main.  One action is one iteration of the while     *)
(* loop: the try block, its except clause, and the branches on action.     *)

\* Files of ASCII_DIR: a still and a clip that save_ascii_file wrote, a file
\* that is no zlib stream, and a stream with no metadata line
GoodStill == save_ascii_file(<<"@">>, StaticMeta(FALSE, FALSE, FALSE))
GoodClip ==
    save_ascii_file(<<"@", NL>> \o FRAME_SEPARATOR \o <<NL, "%">>,
                    GifMeta(FALSE, FALSE, FALSE, <<100, 100>>))
JunkFile == [hdr |-> "junk", body |-> <<>>, adler |-> 0]
NoMetaFile == zlib_compress(<<"@">>)

PlaylistFiles == {GoodStill, GoodClip, JunkFile, NoMetaFile}

\* What load_ascii_frames returns, or that it raises, for each of the files
Loads == [f \in PlaylistFiles |-> load_ascii_frames(f)]

\* sorted(ASCII_DIR.glob(...)): the files in the order of their names
Playlists == UNION {[1..k -> PlaylistFiles] : k \in 0..MaxItems}

\* What display_ascii_loop returns
Actions == {"quit", "next", "prev"}

\* action = 'next' of the except clause
ExceptAction == "next"

\* The branches on action after the try statement
IndexAfter(act, i, n) ==
    IF act = "next" THEN (i + 1) % n
    ELSE IF act = "prev" THEN (i - 1) % n
    ELSE i

PcAfter(act) == IF act = "quit" THEN "exited" ELSE "loop"

InitMain ==
    /\ ascii_files \in Playlists
    /\ index = 0
    /\ mframes = <<>>
    /\ main_action = "none"
    /\ mlog = <<>>
    /\ mpc = "start"
    /\ IdleLine /\ IdleDiff /\ IdleCont /\ IdleAnim /\ IdlePlay /\ IdleComp
    /\ IdleConv

otherThanMain ==
    <<lineVars, diffVars, contVars, animVars, playVars, compVars, convVars>>

\* if not ascii_files: print, return; index = 0
MainStart ==
    /\ mpc = "start"
    /\ mpc' = IF ascii_files = <<>> THEN "returned" ELSE "loop"
    /\ index' = 0
    /\ UNCHANGED <<ascii_files, mframes, main_action, mlog, otherThanMain>>

\* load_ascii_frames raises: the except clause, then the 'next' branch.
\* r is what load_ascii_frames gives for the current file.
MainLoadRaises(r) ==
    /\ mpc = "loop"
    /\ Len(mlog) < MaxLog
    /\ ~r.ok
    /\ mlog' = Append(mlog, index)
    /\ main_action' = ExceptAction
    /\ index' = IndexAfter(ExceptAction, index, Len(ascii_files))
    /\ mpc' = PcAfter(ExceptAction)
    /\ UNCHANGED <<ascii_files, mframes, otherThanMain>>

\* display_ascii_loop raises (the terminal calls of get_keypress fail): the
\* except clause, then the 'next' branch
MainPlayRaises(r) ==
    /\ mpc = "loop"
    /\ Len(mlog) < MaxLog
    /\ r.ok
    /\ mframes' = r.frames
    /\ mlog' = Append(mlog, index)
    /\ main_action' = ExceptAction
    /\ index' = IndexAfter(ExceptAction, index, Len(ascii_files))
    /\ mpc' = PcAfter(ExceptAction)
    /\ UNCHANGED <<ascii_files, otherThanMain>>

\* display_ascii_loop returns an action
MainPlayed(r) ==
    /\ mpc = "loop"
    /\ r.ok
    /\ \E act \in Actions :
          /\ main_action' = act
          /\ index' = IndexAfter(act, index, Len(ascii_files))
          /\ mpc' = PcAfter(act)
    /\ mframes' = r.frames
    /\ UNCHANGED <<ascii_files, mlog, otherThanMain>>

\* One iteration of the while loop on the current file
MainIteration ==
    /\ mpc = "loop"
    /\ \E r \in {Loads[ascii_files[index + 1]]} :
          MainLoadRaises(r) \/ MainPlayRaises(r) \/ MainPlayed(r)

NextMain == MainStart \/ MainIteration

----------------------------------------------------------------------------
(* Specification SpecBatch: a run of the converter over a directory        *)
(* listing, or a run of the viewer over a playlist                          *)

InitBatch == InitConv \/ InitMain

NextBatch == NextConv \/ NextMain

SpecBatch == InitBatch /\ [][NextBatch]_vars

----------------------------------------------------------------------------
(* Claims about the line codec *)

\* C1: for every non-empty row R (plain glyphs, or glyphs each wrapped in a
\* 24-bit colour escape and a reset) and every threshold t >= 1,
\* unpack_line(compress_line(R, True, t)) = R character for character.
C1_RoundTrip == lpc = "unpacked" => unpacked = line

\* The visible units of a row: a glyph with its escape wrapper (from ESC up to
\* and including "m", the glyph, the reset sequence) is one unit, any other
\* character is a unit of its own.
RECURSIVE Units(_, _)
Units(ln, i) ==
    IF i > Len(ln) THEN <<>>
    ELSE IF ln[i] = ESC
         THEN LET e == Min(MPos(ln, i + 1) + 1 + Len(RESET_ALL), Len(ln)) IN
              <<SubSeq(ln, i, e)>> \o Units(ln, e + 1)
         ELSE <<(<<ln[i]>>)>> \o Units(ln, i + 1)

\* The length of the run of units equal to us[i] that starts at i
RECURSIVE RunLen(_, _)
RunLen(us, i) ==
    IF i + 1 <= Len(us) /\ us[i + 1] = us[i] THEN 1 + RunLen(us, i + 1) ELSE 1

\* Run-length coding by visible unit: the unit and its decimal run length for
\* a run of at least thr, the unit repeated literally otherwise
RECURSIVE UnitRuns(_, _, _)
UnitRuns(us, i, thr) ==
    IF i > Len(us) THEN <<>>
    ELSE LET n == RunLen(us, i) IN
         (IF n >= thr THEN us[i] \o DecimalStr(n)
          ELSE Join([k \in 1..n |-> us[i]], <<>>))
         \o UnitRuns(us, i + n, thr)

\* C2: compress_line with enabled=True scans the row by visible units and,
\* for every maximal run of an identical unit, emits the unit followed by the
\* decimal run length when the run length is >= threshold, and the unit
\* repeated literally otherwise.
C2_UnitRuns ==
    lpc # "row" => packed = UnitRuns(Units(line, 1), 1, threshold)

----------------------------------------------------------------------------
(* Claims about the diff codec *)

\* C3: for every sequence F of one or more frames of the same height, whose
\* rows are rows the encoder can produce (a row "=" included),
\* apply_diff(diff_frames(F)) is exactly the frames of F, each as its rows
\* joined by newlines.
C3_DiffRoundTrip ==
    dpc = "applied" =>
        restored = [i \in 1..Len(dframes) |-> Join(dframes[i], <<NL>>)]

----------------------------------------------------------------------------
(* Claims about the container codec *)

\* C4: for every metadata record M (compressed, diff, color, optional delays)
\* and every payload text P, which may hold newlines, decompress_ascii of the
\* file written by save_ascii_file(path, P, M) returns exactly (M, P).
C4_ContainerRoundTrip ==
    cpc = "loaded" =>
        /\ loaded.ok
        /\ loaded.metadata = meta
        /\ loaded.content = payload

\* A file was saved with a payload that holds a newline, and loaded
C4_Witness ==
    /\ cpc = "loaded"
    /\ meta # JNull
    /\ \E k \in 1..Len(payload) : payload[k] = NL
    /\ \E k \in 1..Len(meta.v) : meta.v[k][1] = KeyDelays /\ Len(meta.v[k][2].v) = 2

\* The value of a key in a parsed object, or null
Field(obj, name) ==
    IF \E k \in 1..Len(obj.v) : obj.v[k][1] = name
    THEN (CHOOSE pr \in {obj.v[k] : k \in 1..Len(obj.v)} : pr[1] = name)[2]
    ELSE JNull

\* The text parses as the structured metadata record: an object with boolean
\* compressed, diff and color and, if present, a list of integers delays
IsMetadataRecord(text) ==
    LET r == json_loads(text) IN
    /\ r.ok
    /\ r.val.t = "obj"
    /\ \A name \in {KeyCompressed, KeyDiff, KeyColor} : Field(r.val, name).t = "bool"
    /\ \/ Field(r.val, KeyDelays).t = "null"
       \/ /\ Field(r.val, KeyDelays).t = "list"
          /\ \A k \in 1..Len(Field(r.val, KeyDelays).v) :
                Field(r.val, KeyDelays).v[k].t = "int"

\* C10: decompress_ascii fails with an error, and returns no (metadata,
\* payload) pair, when the file bytes do not decompress, when the decompressed
\* bytes hold no newline, or when the text before the first newline does not
\* parse as the structured metadata record.
C10_FormatErrors ==
    cpc = "loaded" =>
        ( ( \/ ~ZlibValid(file)
            \/ FindNewline(file.body) = -1
            \/ ~IsMetadataRecord(SubSeq(file.body, 1, FindNewline(file.body))) )
          => ~loaded.ok )

----------------------------------------------------------------------------
(* Claims about the animation path *)

\* The uncompressed rows of source frame f, joined by newlines
SourceFrame(f) ==
    Join([y \in 1..Len(anim.frames[f]) |-> RowText(anim.frames[f][y], anim.color_mode)],
         <<NL>>)

\* C5: for an animation of two or more frames of the same height, encoded by
\* process_gif_image and decoded by load_ascii_frames, the decoder returns one
\* frame per encoded frame, all with the same row count, and each returned
\* frame's rows are exactly the uncompressed rows of the corresponding source
\* frame, with no row added, removed or reordered.
C5_EndToEnd ==
    epc = "decoded" =>
        /\ decoded.ok
        /\ Len(decoded.frames) = Len(anim.frames)
        /\ \A f \in 1..Len(anim.frames) : decoded.frames[f] = SourceFrame(f)

----------------------------------------------------------------------------
(* Claims about the playback engine *)

\* The loop is back at its top, or has left get_keypress
IndexInRange == frame_index \in 0..(total_frames - 1)

\* print_frame runs at the top of the loop exactly when draw is set, and
\* shows the frame at frame_index
RedrawStep ==
    ppc = "loop" => /\ printed' = draw
                    /\ draw => shown' = frame_index

\* 'c' in any case, from either mode
KeyCStep ==
    (ppc = "handle" /\ key \in {"c", "C"}) =>
        /\ mode' = "STEP"
        /\ frame_index' = (frame_index + 1) % total_frames
        /\ draw'
        /\ ppc' = "loop"

\* 'x' in any case, from either mode
KeyXStep ==
    (ppc = "handle" /\ key \in {"x", "X"}) =>
        /\ mode' = "STEP"
        /\ frame_index' = IF frame_index = 0 THEN total_frames - 1
                          ELSE frame_index - 1
        /\ draw'
        /\ ppc' = "loop"

\* C6: with n >= 1 frames, from either state and any frame index i, 'c' (any
\* case) leaves the engine Paused at index (i+1) mod n with a redraw of that
\* frame, 'x' leaves it Paused at index (i-1) mod n with a redraw; after any
\* sequence of keypresses and timer expiries the index stays in 0..n-1.
C6_StepKeys ==
    /\ []IndexInRange
    /\ [][KeyCStep]_vars
    /\ [][KeyXStep]_vars
    /\ [][RedrawStep]_vars

\* 'x' at index 0 of three frames while Playing was handled and redrawn:
\* Paused, showing the last frame
C6_Witness ==
    /\ ppc = "kp_try"
    /\ total_frames = 3
    /\ key = "X"
    /\ mode = "STEP"
    /\ frame_index = 2
    /\ printed
    /\ shown = 2

\* A timer expiry while Playing
TimerStep ==
    (ppc = "handle" /\ key = NoKey /\ mode = "AUTO") =>
        /\ draw' = (total_frames > 1)
        /\ frame_index' = (frame_index + 1) % total_frames
        /\ mode' = "AUTO"
        /\ ppc' = "loop"

\* While Paused the frame index changes only by 'x' or 'c'
PausedStep ==
    (mode = "STEP" /\ frame_index' # frame_index) =>
        ppc = "handle" /\ Lower(key) \in {"x", "c"}

\* While Paused, and with a single frame, get_keypress waits with no timeout,
\* so no timer expires
NoTimerWhenPaused ==
    /\ (ppc \in {"kp_try", "kp_read"} /\ (mode = "STEP" \/ total_frames = 1))
           => timeout = None
    /\ (ppc = "handle" /\ key = NoKey) => (mode = "AUTO" /\ total_frames > 1)

\* C7: a timer expiry while Playing causes a redraw iff the animation has
\* more than one frame, and then the redrawn frame is index (i+1) mod n; with
\* one frame no redraw is ever caused by the timer; while Paused the engine
\* waits without a timeout and the frame index changes only by 'x' or 'c'.
C7_Timer ==
    /\ []NoTimerWhenPaused
    /\ [][TimerStep]_vars
    /\ [][RedrawStep]_vars
    /\ [][PausedStep]_vars

\* The timer expired while the last of three frames was shown: the index
\* wrapped to 0 and the redraw is due
C7_Witness ==
    /\ ppc = "loop"
    /\ total_frames = 3
    /\ key = NoKey
    /\ mode = "AUTO"
    /\ shown = 2
    /\ frame_index = 0
    /\ draw

\* C8: the terminal mode captured on entry is restored on every exit path of
\* get_keypress (a key, None on timeout, an exception or interrupt raised
\* after the mode was changed), so wherever display_ascii_loop returns
\* 'quit', 'next' or 'prev' or propagates an error the terminal is in its
\* prior mode.
C8_TerminalRestored ==
    ppc \in {"handle", "loop", "returned", "raised"} => termAttr = entryAttr

\* An interrupt during the wait, after setcbreak, has left get_keypress
C8_Witness ==
    /\ ppc = "raised"
    /\ action = "error"
    /\ old_settings = entryAttr
    /\ timeout # None
    /\ termAttr = "cooked"

----------------------------------------------------------------------------
(* Claims about the frame compositor *)

\* The reset the disposal rule d of the previous frame asks for: cv is the
\* canvas as the previous frame left it, before is the snapshot taken before
\* the previous frame was composited
ResetByPrevious(d, cv, before) ==
    IF d = 2 THEN Filled
    ELSE IF d = 3 THEN before
    ELSE cv

\* C9: the canvas reset done before compositing input frame i (i >= 1) is
\* chosen by the disposal rule of frame i-1, not of frame i: restore-background
\* fills the canvas with the opaque background colour, restore-previous resets
\* it to the snapshot taken before frame i-1 was composited, none leaves it as
\* frame i-1 left it; frame i is then alpha-composited at its offset and the
\* result snapshotted as output i.
C9_DisposalOfPrevious ==
    [][ (gpc = "loop" /\ frame_num >= 1 /\ frame_num < Len(gif)) =>
           out_frames' =
              Append(out_frames,
                     AlphaComposite(
                        ResetByPrevious(InfoDisposal(gif[frame_num]),
                                        canvas, pre_canvas),
                        gif[frame_num + 1])) ]_vars

----------------------------------------------------------------------------
(* Claims about the batch loops *)

\* The entry opens as an image that has no frames, or a frame of no rows
ZeroInput(e) ==
    /\ e.is_file /\ e.readable
    /\ \/ Len(e.frames) = 0
       \/ \E f \in 1..Len(e.frames) : Len(e.frames[f]) = 0

\* The iteration over an input of zero rows or zero frames ends in the
\* except clause and leaves the output directory as it was
ZeroInputStep ==
    (bpc = "loop" /\ ipos <= Len(images) /\ ZeroInput(images[ipos])
       /\ ipos' # ipos)
    => /\ disk' = disk
       /\ clog' = clog \o << <<"converting", images[ipos].name>>,
                              <<"error", images[ipos].name>> >>

Failing(e) == e.is_file /\ Convert(e, options).raised

\* The listing with the failing entries absent
Passing == SelectSeq(images, LAMBDA e : ~Failing(e))

\* ASCII_DIR after every entry of a listing went through the loop body
RECURSIVE DiskAfter(_, _, _)
DiskAfter(listing, opt, d) ==
    IF listing = <<>> THEN d
    ELSE LET e == Head(listing)
             r == Convert(e, opt)
             nd == IF ~e.is_file \/ d[e.stem] # NoFile \/ r.raised THEN d
                   ELSE [d EXCEPT ![e.stem] = r.file] IN
         DiskAfter(Tail(listing), opt, nd)

\* When the loop is over, the output directory is what the listing without
\* the failing entries gives
ConvertedAsIfAbsent ==
    bpc = "done" => disk = DiskAfter(Passing, options, EmptyDisk)

\* The iteration in which the conversion raises logs the error, writes no
\* file and goes on to the next entry
ConvErrorStep ==
    (bpc = "loop" /\ ipos <= Len(images) /\ Failing(images[ipos])
       /\ disk[images[ipos].stem] = NoFile /\ ipos' # ipos)
    => /\ clog' = clog \o << <<"converting", images[ipos].name>>,
                              <<"error", images[ipos].name>> >>
       /\ disk' = disk
       /\ ipos' = ipos + 1
       /\ bpc' = "loop"

\* An iteration of the playlist loop that logs an error goes on to the next
\* file and stays in the loop; an iteration on a file that does not load
\* logs the error
MainErrorStep ==
    /\ (mpc = "loop" /\ mlog' # mlog)
       => /\ mlog' = Append(mlog, index)
          /\ index' = (index + 1) % Len(ascii_files)
          /\ mpc' = "loop"
    /\ (mpc = "loop" /\ ~Loads[ascii_files[index + 1]].ok /\ mainVars' # mainVars)
       => mlog' = Append(mlog, index)

\* An iteration that logs no error plays the frames of the current file and
\* follows the action returned, whatever failed before
MainPlayStep ==
    (mpc = "loop" /\ mlog' = mlog /\ mainVars' # mainVars)
    => /\ Loads[ascii_files[index + 1]].ok
       /\ mframes' = Loads[ascii_files[index + 1]].frames
       /\ main_action' \in Actions
       /\ index' = IndexAfter(main_action', index, Len(ascii_files))
       /\ mpc' = PcAfter(main_action')

\* C12: errors are local to one item in both batch loops: when converting
\* one image in process_images, or loading or playing one file in the
\* viewer's main loop, raises an error, the error is logged and the loop goes
\* on to the next item; every other item is processed as if the failing item
\* were absent, and the process does not end because of the error.
C12_ErrorsAreLocal ==
    /\ []ConvertedAsIfAbsent
    /\ [][ConvErrorStep]_vars
    /\ [][MainErrorStep /\ MainPlayStep]_vars

\* The first file of a playlist of three failed and was logged, and the
\* second was then played and left with 'next'
C12_Witness ==
    /\ mpc = "loop"
    /\ Len(ascii_files) = 3
    /\ ~Loads[ascii_files[1]].ok
    /\ Loads[ascii_files[2]].ok
    /\ mlog = <<0>>
    /\ index = 2
    /\ main_action = "next"
    /\ mframes = Loads[ascii_files[2]].frames

====
